---- MODULE Spec2Model ----
(***************************************************************************)
(* CookieManager (src/mcp_atlassian/cookies_manager.py): a data-access     *)
(* object over one SQLite file with two tables, cookies and auth_state.    *)
(*                                                                         *)
(* The committed content of the database file is the state.  Every public  *)
(* method is one action: it opens its own connection, runs its statements  *)
(* inside the implicit transaction of the sqlite3 module and leaves        *)
(* through the connection's context manager, which commits when the block  *)
(* ends normally and rolls back when an exception leaves it.  A storage    *)
(* engine failure (sqlite3.Error) is an input of the action: the step of   *)
(* the method at which the engine fails.                                   *)
(*                                                                         *)
(* Times are whole seconds of one clock; CURRENT_TIMESTAMP and             *)
(* datetime.now() both read it.  NULL in a TIMESTAMP column is NoTime.     *)
(* The clock may tick between two calls and once inside a save_cookies     *)
(* call, between two of its INSERT statements.                             *)
(*                                                                         *)
(* call and last_save are history variables: what the last call was given  *)
(* and returned, and for each service its last successful save_cookies.    *)
(*                                                                         *)
(* Spec is the program called by one caller at a time, with engine         *)
(* failures.  ConcSpec is the program called by two clients at once on the *)
(* same file: each statement of a call is a step, and the steps of the two *)
(* calls interleave under the locks of the SQLite file (rollback-journal   *)
(* mode, the default): SHARED for a SELECT, RESERVED from the first write  *)
(* of a transaction, PENDING and EXCLUSIVE for its commit.  A step that    *)
(* finds the lock taken waits, or gives up with "database is locked" when  *)
(* the connection's busy timeout runs out.                                 *)
(***************************************************************************)
EXTENDS Integers, Sequences, FiniteSets, TLC

(* ---- bounds ---- *)
MaxClock == 2        \* the clock stops ticking here
MaxWrites == 2       \* committed writes (ids of auth_state) since construction

(* ---- values ---- *)
Services == {"confluence", "svc"}
Null == "NULL"                     \* Python None / SQL NULL in a TEXT column
NoTime == 0                        \* SQL NULL in a TIMESTAMP column
Absent == <<"None">>               \* a method returning None
KeyError == "KeyError"             \* the exception cookie["name"] raises
Statuses == {"success", "failure"}
\* auth_type as passed to update_auth_state: a tag other than the one
\* save_cookies writes, or None, which the NOT NULL column rejects
AuthTypes == {"basic", Null}

\* cookie descriptors (Python dicts); "name" or "value" may be missing
A1 == [name |-> "a", value |-> "1"]
B2 == [name |-> "b", value |-> "2"]
A2 == [name |-> "a", value |-> "2", path |-> "/p"]
NoName == [value |-> "1"]
NoValue == [name |-> "a"]

\* the sequences passed to save_cookies: empty, one cookie, two names of which
\* one comes twice, and a defective descriptor first or after a valid one
CookieLists ==
    {<<>>, <<B2>>, <<A1, B2, A2>>, <<NoName>>, <<A1, NoValue>>}

Clients == {"c1", "c2"}            \* two callers (threads or processes) on one file
NoClient == "none"

VARIABLES
    tables,         \* the tables the database file has
    cookies,        \* table cookies: committed rows, in rowid order
    auth_state,     \* table auth_state: committed rows, in rowid order
    seq_cookies,    \* sqlite_sequence entry of cookies (largest id ever used)
    seq_auth,       \* sqlite_sequence entry of auth_state
    now,            \* the clock, in seconds
    call,           \* the last call: method, arguments, outcome
    last_save,      \* per service: the last save_cookies that returned True
    conn,           \* per client: the call it is in and the statement it is at
    writer,         \* the client whose transaction holds the write lock
    readers,        \* the clients whose SELECT holds a SHARED lock
    work,           \* the content the open write transaction has built
    unclosed        \* a call has ended and its connection is still open

conc == <<conn, writer, readers, work, unclosed>>
vars == <<tables, cookies, auth_state, seq_cookies, seq_auth, now, call, last_save,
          conn, writer, readers, work, unclosed>>

(* ---- helpers over sequences ---- *)
RECURSIVE SelectRows(_, _)
SelectRows(rows, s) ==
    IF rows = <<>> THEN <<>>
    ELSE IF Head(rows).service = s
         THEN <<Head(rows)>> \o SelectRows(Tail(rows), s)
         ELSE SelectRows(Tail(rows), s)

\* (a DELETE without its WHERE clause)
DeleteRowsAll(rows, s) == <<>>

RECURSIVE DeleteRows(_, _)
DeleteRows(rows, s) ==
    IF rows = <<>> THEN <<>>
    ELSE IF Head(rows).service = s
         THEN DeleteRows(Tail(rows), s)
         ELSE <<Head(rows)>> \o DeleteRows(Tail(rows), s)

\* (a save that does not clear the old rows)
DeleteCookiesNothing(rows, s) == rows

\* DELETE FROM cookies WHERE service = ?
DeleteCookies(rows, s) == DeleteRows(rows, s)

DictGet(d, k, default) == IF k \in DOMAIN d THEN d[k] ELSE default

(* ---- Python dict as returned by get_cookies: insertion-ordered pairs ---- *)
\* (a mapping in which a name read again moves to the end)
DictPutMoveToEnd(d, k, v) ==
    Append(SelectSeq(d, LAMBDA e : e[1] # k), <<k, v>>)

\* (a mapping that keeps the first value read for a name)
DictPutKeepFirst(d, k, v) ==
    IF \E i \in 1..Len(d) : d[i][1] = k THEN d ELSE Append(d, <<k, v>>)

RECURSIVE DictPut(_, _, _)
DictPut(d, k, v) ==
    IF d = <<>> THEN <<<<k, v>>>>
    ELSE IF Head(d)[1] = k
         THEN <<<<k, v>>>> \o Tail(d)
         ELSE <<Head(d)>> \o DictPut(Tail(d), k, v)

\* {name: value for name, value in cookies}
RECURSIVE DictOfRows(_, _)
DictOfRows(rows, d) ==
    IF rows = <<>> THEN d
    ELSE DictOfRows(Tail(rows), DictPut(d, Head(rows).cookie_name, Head(rows).cookie_value))

\* "; ".join(f"{name}={value}" for name, value in cookies.items())
RECURSIVE JoinPairs(_)
JoinPairs(d) ==
    IF d = <<>> THEN ""
    ELSE IF Len(d) = 1 THEN d[1][1] \o "=" \o d[1][2]
         ELSE d[1][1] \o "=" \o d[1][2] \o "; " \o JoinPairs(Tail(d))

\* (the oldest last_updated instead of the newest)
RECURSIVE MinLastUpdated(_)
MinLastUpdated(rows) ==
    IF rows = <<>> THEN NoTime
    ELSE LET m == MinLastUpdated(Tail(rows))
         IN IF m = NoTime \/ Head(rows).last_updated < m
            THEN Head(rows).last_updated ELSE m

\* SELECT MAX(last_updated) over the given rows; NULL when there are none
RECURSIVE MaxLastUpdated(_)
MaxLastUpdated(rows) ==
    IF rows = <<>> THEN NoTime
    ELSE LET m == MaxLastUpdated(Tail(rows))
         IN IF m = NoTime \/ Head(rows).last_updated > m
            THEN Head(rows).last_updated ELSE m

(* ---- the three reads, on a given content of table cookies ---- *)
\* (a get_cookies that returns the dict whether or not rows were fetched)
get_cookies_result_or_empty(table, s, failed) ==
    IF failed THEN Absent
    ELSE <<"dict", DictOfRows(SelectRows(table, s), <<>>)>>

get_cookies_result(table, s, failed) ==
    IF failed THEN Absent
    ELSE LET fetched == SelectRows(table, s)
         IN IF fetched # <<>> THEN <<"dict", DictOfRows(fetched, <<>>)>> ELSE Absent

get_cookies_header_result(table, s, failed) ==
    LET got == get_cookies_result(table, s, failed)
    IN IF got # Absent /\ got[2] # <<>> THEN <<"str", JoinPairs(got[2])>> ELSE Absent

get_last_update_result(table, s, failed) ==
    IF failed THEN Absent
    ELSE LET m == MaxLastUpdated(SelectRows(table, s))
         IN IF m # NoTime THEN <<"datetime", m>> ELSE Absent

(* ---- storage-engine failures: the step of a method at which it fails ---- *)
\* (a failing sqlite3.connect is inside the same try and acts as a failure of
\* the first statement)
NoFault == <<"", 0>>
ReadFaults == {NoFault, <<"select", 0>>}
SaveFaults(n) ==
    {NoFault, <<"delete", 0>>, <<"upsert", 0>>, <<"commit", 0>>}
        \cup {<<"insert", i>> : i \in 1..n}
UpdateFaults == {NoFault, <<"upsert", 0>>, <<"commit", 0>>}
InitFaults == {NoFault, <<"create", 1>>, <<"create", 2>>}

(* ---- the schema ---- *)
TableNames == {"cookies", "auth_state"}

\* (DROP TABLE IF EXISTS followed by CREATE TABLE)
CreateTableAnew(schema, name, rows) ==
    [tables |-> schema \cup {name}, rows |-> <<>>, error |-> "none"]

\* CREATE TABLE IF NOT EXISTS name (...): a table the file has is left alone,
\* with its rows; a missing one is created empty
CreateTableIfNotExists(schema, name, rows) ==
    IF name \in schema THEN [tables |-> schema, rows |-> rows, error |-> "none"]
    ELSE [tables |-> schema \cup {name}, rows |-> <<>>, error |-> "none"]

(* ---- statements of the write transactions ---- *)
\* the row INSERT INTO cookies (...) VALUES (...) builds from one descriptor
CookieRow(id, s, d, t) ==
    [id |-> id, service |-> s,
     cookie_name |-> d["name"], cookie_value |-> d["value"],
     domain |-> DictGet(d, "domain", Null), path |-> DictGet(d, "path", "/"),
     expires |-> DictGet(d, "expires", Null),
     http_only |-> DictGet(d, "httpOnly", FALSE), secure |-> DictGet(d, "secure", FALSE),
     last_updated |-> t]

\* (a loop that passes over a descriptor without "name" or "value")
RECURSIVE InsertCookiesSkipDefective(_, _, _, _, _, _, _, _)
InsertCookiesSkipDefective(rows, seq, descs, i, s, fault, tickAfter, t0) ==
    IF i > Len(descs) THEN [rows |-> rows, seq |-> seq, error |-> "none"]
    ELSE LET d == descs[i]
         IN IF "name" \notin DOMAIN d \/ "value" \notin DOMAIN d
            THEN InsertCookiesSkipDefective(rows, seq, descs, i + 1, s, fault, tickAfter, t0)
            ELSE IF fault = <<"insert", i>>
            THEN [rows |-> rows, seq |-> seq, error |-> "sqlite3.Error"]
            ELSE InsertCookiesSkipDefective(
                    Append(rows, CookieRow(seq + 1, s, d, IF i > tickAfter THEN t0 + 1 ELSE t0)),
                    seq + 1, descs, i + 1, s, fault, tickAfter, t0)

\* the for loop of save_cookies from descriptor i on, inside the transaction.
\* The clock ticks once after tickAfter inserts (never, if tickAfter >= Len).
RECURSIVE InsertCookies(_, _, _, _, _, _, _, _)
InsertCookies(rows, seq, descs, i, s, fault, tickAfter, t0) ==
    IF i > Len(descs) THEN [rows |-> rows, seq |-> seq, error |-> "none"]
    ELSE LET d == descs[i]
         IN IF "name" \notin DOMAIN d \/ "value" \notin DOMAIN d
            THEN [rows |-> rows, seq |-> seq, error |-> KeyError]
            ELSE IF fault = <<"insert", i>>
            THEN [rows |-> rows, seq |-> seq, error |-> "sqlite3.Error"]
            ELSE InsertCookies(
                    Append(rows, CookieRow(seq + 1, s, d, IF i > tickAfter THEN t0 + 1 ELSE t0)),
                    seq + 1, descs, i + 1, s, fault, tickAfter, t0)

\* (a plain INSERT into a table without UNIQUE(service))
UpsertAuthStateAppending(rows, seq, s, auth_type, last_success_auth, status, t) ==
    IF auth_type = Null
    THEN [rows |-> rows, seq |-> seq, error |-> "sqlite3.Error"]
    ELSE [rows |-> Append(rows,
                     [id |-> seq + 1, service |-> s, auth_type |-> auth_type,
                      last_success_auth |-> last_success_auth,
                      last_auth_status |-> status, credentials |-> Null,
                      created_at |-> t, updated_at |-> t]),
          seq |-> seq + 1, error |-> "none"]

\* (INSERT OR IGNORE: the row the service already has is kept)
UpsertAuthStateOrIgnore(rows, seq, s, auth_type, last_success_auth, status, t) ==
    IF auth_type = Null
    THEN [rows |-> rows, seq |-> seq, error |-> "sqlite3.Error"]
    ELSE IF SelectRows(rows, s) # <<>>
    THEN [rows |-> rows, seq |-> seq, error |-> "none"]
    ELSE [rows |-> Append(rows,
                     [id |-> seq + 1, service |-> s, auth_type |-> auth_type,
                      last_success_auth |-> last_success_auth,
                      last_auth_status |-> status, credentials |-> Null,
                      created_at |-> t, updated_at |-> t]),
          seq |-> seq + 1, error |-> "none"]

\* INSERT OR REPLACE INTO auth_state (service, auth_type, last_success_auth,
\* last_auth_status, updated_at): the row in conflict on UNIQUE(service) is
\* deleted and a new row is inserted; id, credentials and created_at are not
\* supplied and take AUTOINCREMENT, NULL and DEFAULT CURRENT_TIMESTAMP.
UpsertAuthState(rows, seq, s, auth_type, last_success_auth, status, t) ==
    IF auth_type = Null
    THEN [rows |-> rows, seq |-> seq, error |-> "sqlite3.Error"]
    ELSE [rows |-> Append(DeleteRows(rows, s),
                     [id |-> seq + 1, service |-> s, auth_type |-> auth_type,
                      last_success_auth |-> last_success_auth,
                      last_auth_status |-> status, credentials |-> Null,
                      created_at |-> t, updated_at |-> t]),
          seq |-> seq + 1, error |-> "none"]

Db(c, a, sc, sa) == [cookies |-> c, auth_state |-> a, seq_cookies |-> sc, seq_auth |-> sa]

\* (a save that does not touch auth_state)
SaveTxnWithoutUpsert(db, descs, s, fault, tickAfter, t0) ==
    LET deleted == DeleteCookies(db.cookies, s)
        ins == InsertCookies(deleted, db.seq_cookies, descs, 1, s, fault, tickAfter, t0)
        inserted == Db(ins.rows, db.auth_state, ins.seq, db.seq_auth)
    IN  IF fault[1] = "delete" THEN [db |-> db, error |-> "sqlite3.Error"]
        ELSE IF ins.error = KeyError THEN [db |-> inserted, error |-> KeyError]
        ELSE IF ins.error # "none" THEN [db |-> inserted, error |-> "sqlite3.Error"]
        ELSE IF fault[1] \in {"upsert", "commit"} THEN [db |-> inserted, error |-> "sqlite3.Error"]
        ELSE [db |-> inserted, error |-> "none"]

\* the body of save_cookies up to the end of the with block: the content the
\* transaction has built and the exception, if any, that ended it
SaveTxn(db, descs, s, fault, tickAfter, t0) ==
    LET t1 == IF tickAfter < Len(descs) THEN t0 + 1 ELSE t0
        deleted == DeleteCookies(db.cookies, s)
        ins == InsertCookies(deleted, db.seq_cookies, descs, 1, s, fault, tickAfter, t0)
        inserted == Db(ins.rows, db.auth_state, ins.seq, db.seq_auth)
        ups == UpsertAuthState(db.auth_state, db.seq_auth, s, "cookie_based", t1, "success", t1)
        upserted == Db(ins.rows, ups.rows, ins.seq, ups.seq)
    IN  IF fault[1] = "delete" THEN [db |-> db, error |-> "sqlite3.Error"]
        ELSE IF ins.error = KeyError THEN [db |-> inserted, error |-> KeyError]
        ELSE IF ins.error # "none" THEN [db |-> inserted, error |-> "sqlite3.Error"]
        ELSE IF fault[1] = "upsert" \/ ups.error # "none" THEN [db |-> inserted, error |-> "sqlite3.Error"]
        ELSE IF fault[1] = "commit" THEN [db |-> upserted, error |-> "sqlite3.Error"]
        ELSE [db |-> upserted, error |-> "none"]

\* (an update that also drops the cookies of a service that failed to authenticate)
UpdateTxnDroppingCookies(db, s, status, auth_type, fault, t0) ==
    LET ups == UpsertAuthState(db.auth_state, db.seq_auth, s, auth_type,
                               IF status = "success" THEN t0 ELSE NoTime, status, t0)
        kept == IF status = "success" THEN db.cookies ELSE DeleteRows(db.cookies, s)
        upserted == Db(kept, ups.rows, db.seq_cookies, ups.seq)
    IN  IF fault[1] = "upsert" \/ ups.error # "none" THEN [db |-> db, error |-> "sqlite3.Error"]
        ELSE IF fault[1] = "commit" THEN [db |-> upserted, error |-> "sqlite3.Error"]
        ELSE [db |-> upserted, error |-> "none"]

\* (an update that stamps last_success_auth whatever the status)
UpdateTxnKeepingSuccess(db, s, status, auth_type, fault, t0) ==
    LET ups == UpsertAuthState(db.auth_state, db.seq_auth, s, auth_type, t0, status, t0)
        upserted == Db(db.cookies, ups.rows, db.seq_cookies, ups.seq)
    IN  IF fault[1] = "upsert" \/ ups.error # "none" THEN [db |-> db, error |-> "sqlite3.Error"]
        ELSE IF fault[1] = "commit" THEN [db |-> upserted, error |-> "sqlite3.Error"]
        ELSE [db |-> upserted, error |-> "none"]

\* the body of update_auth_state up to the end of the with block
UpdateTxn(db, s, status, auth_type, fault, t0) ==
    LET ups == UpsertAuthState(db.auth_state, db.seq_auth, s, auth_type,
                               IF status = "success" THEN t0 ELSE NoTime, status, t0)
        upserted == Db(db.cookies, ups.rows, db.seq_cookies, ups.seq)
    IN  IF fault[1] = "upsert" \/ ups.error # "none" THEN [db |-> db, error |-> "sqlite3.Error"]
        ELSE IF fault[1] = "commit" THEN [db |-> upserted, error |-> "sqlite3.Error"]
        ELSE [db |-> upserted, error |-> "none"]

\* (a connection that commits what was done when an exception leaves the block)
ConnectionExitCommitsAnyway(before, txn) == txn.db

\* leaving "with sqlite3.connect(...) as conn": commit when the block ended
\* normally and the commit went through, roll back otherwise
ConnectionExit(before, txn) == IF txn.error = "none" THEN txn.db ELSE before

\* (a writer whose except clause lets the error through)
WriteOutcomeReraising(error) == IF error = "none" THEN "True" ELSE error

\* try/except sqlite3.Error around the with block of the two writers
WriteOutcome(error) ==
    IF error = "none" THEN "True"
    ELSE IF error = "sqlite3.Error" THEN "False"
    ELSE error

(* ---- the calls ---- *)
\* some descriptor of the sequence has no "name" or no "value" key
Defective(descs) ==
    \E i \in 1..Len(descs) : "name" \notin DOMAIN descs[i] \/ "value" \notin DOMAIN descs[i]

\* done: the inserts into cookies the call had executed when it ended
\* at: the statement at which a call of one of the two clients ended
NoCall == [op |-> "none", service |-> "", defective |-> FALSE, status |-> "", auth_type |-> "",
           error |-> "none", done |-> 0, at |-> "", result |-> Absent]

NeverSaved == [saved |-> FALSE, cookies |-> <<>>, base |-> 0, time |-> NoTime]

Idle == [pc |-> "idle", op |-> "none", service |-> "", descs |-> <<>>, i |-> 0]
NoWork == Db(<<>>, <<>>, 0, 0)

Init ==
    /\ tables = TableNames
    /\ conn = [p \in Clients |-> Idle]
    /\ writer = NoClient
    /\ readers = {}
    /\ work = NoWork
    /\ unclosed = FALSE
    /\ cookies = <<>>
    /\ auth_state = <<>>
    /\ seq_cookies = 0
    /\ seq_auth = 0
    /\ now = 1
    /\ call = NoCall
    /\ last_save = [s \in Services |-> NeverSaved]

Tick ==
    /\ now < MaxClock
    /\ now' = now + 1
    /\ call' = NoCall
    /\ UNCHANGED <<tables, cookies, auth_state, seq_cookies, seq_auth, last_save, conc>>

Read(op, s, fault, result) ==
    /\ call' = [NoCall EXCEPT !.op = op, !.service = s,
                    !.error = IF fault = NoFault THEN "none" ELSE "sqlite3.Error",
                    !.result = result]
    /\ UNCHANGED <<tables, cookies, auth_state, seq_cookies, seq_auth, now, last_save, conc>>

get_cookies(s, fault) ==
    Read("get_cookies", s, fault, get_cookies_result(cookies, s, fault # NoFault))

get_cookies_header(s, fault) ==
    Read("get_cookies_header", s, fault, get_cookies_header_result(cookies, s, fault # NoFault))

get_last_update(s, fault) ==
    Read("get_last_update", s, fault, get_last_update_result(cookies, s, fault # NoFault))

Commit(after) ==
    /\ cookies' = after.cookies
    /\ auth_state' = after.auth_state
    /\ seq_cookies' = after.seq_cookies
    /\ seq_auth' = after.seq_auth

save_cookies(descs, s, fault, tickAfter) ==
    /\ seq_auth < MaxWrites
    /\ UNCHANGED <<tables, conc>>
    /\ \E t1 \in {IF tickAfter < Len(descs) THEN now + 1 ELSE now} :
        /\ t1 <= MaxClock
        /\ \E before \in {Db(cookies, auth_state, seq_cookies, seq_auth)} :
           \E txn \in {SaveTxn(before, descs, s, fault, tickAfter, now)} :
            /\ \E after \in {ConnectionExit(before, txn)} : Commit(after)
            /\ now' = t1
            /\ call' = [NoCall EXCEPT !.op = "save_cookies", !.service = s,
                            !.defective = Defective(descs), !.error = txn.error,
                            !.done = txn.db.seq_cookies - seq_cookies,
                            !.result = WriteOutcome(txn.error)]
            /\ last_save' = IF txn.error = "none"
                            THEN [last_save EXCEPT ![s] =
                                    [saved |-> TRUE, cookies |-> descs, base |-> seq_cookies,
                                     time |-> t1]]
                            ELSE last_save

update_auth_state(s, status, auth_type, fault) ==
    /\ seq_auth < MaxWrites
    /\ \E before \in {Db(cookies, auth_state, seq_cookies, seq_auth)} :
       \E txn \in {UpdateTxn(before, s, status, auth_type, fault, now)} :
        /\ \E after \in {ConnectionExit(before, txn)} : Commit(after)
        /\ call' = [NoCall EXCEPT !.op = "update_auth_state", !.service = s, !.status = status,
                        !.auth_type = auth_type, !.error = txn.error,
                        !.result = WriteOutcome(txn.error)]
    /\ UNCHANGED <<tables, now, last_save, conc>>

\* CookieManager(db_path) again on the same file: _ensure_tables.  Each CREATE
\* is its own statement (the sqlite3 module opens no transaction for DDL); an
\* engine failure is logged and raised again.
ensure_tables(fault) ==
    \E c1 \in {CreateTableIfNotExists(tables, "cookies", cookies)} :
    \E c2 \in {CreateTableIfNotExists(c1.tables, "auth_state", auth_state)} :
    \E error \in {IF fault # NoFault THEN "sqlite3.Error"
                  ELSE IF c1.error # "none" THEN c1.error ELSE c2.error} :
    \E done \in {IF fault # NoFault THEN fault[2] - 1
                 ELSE IF c1.error # "none" THEN 0 ELSE IF c2.error # "none" THEN 1 ELSE 2} :
        /\ tables' = IF done = 0 THEN tables ELSE IF done = 1 THEN c1.tables ELSE c2.tables
        /\ cookies' = IF done = 0 THEN cookies ELSE c1.rows
        /\ auth_state' = IF done = 2 THEN c2.rows ELSE auth_state
        /\ call' = [NoCall EXCEPT !.op = "__init__", !.error = error, !.done = done,
                        !.result = IF error = "none" THEN Absent ELSE <<"raise", error>>]
        /\ UNCHANGED <<seq_cookies, seq_auth, now, last_save, conc>>

Next ==
    \/ Tick
    \/ \E f \in InitFaults : ensure_tables(f)
    \/ \E s \in Services, f \in ReadFaults : get_cookies(s, f)
    \/ \E s \in Services, f \in ReadFaults : get_cookies_header(s, f)
    \/ \E s \in Services, f \in ReadFaults : get_last_update(s, f)
    \/ \E descs \in CookieLists, s \in Services :
          \/ \E k \in {1, Len(descs)} : save_cookies(descs, s, NoFault, k)
          \/ \E f \in SaveFaults(Len(descs)) \ {NoFault} : save_cookies(descs, s, f, Len(descs))
    \/ \E s \in Services, st \in Statuses, at \in AuthTypes, f \in UpdateFaults :
          update_auth_state(s, st, at, f)

Spec == Init /\ [][Next]_vars

TypeOK ==
    /\ seq_cookies \in Nat
    /\ seq_auth \in 0..MaxWrites
    /\ now \in 1..MaxClock

(* ---- two clients at once: one step per statement ---- *)
\* the sequences the two clients save
ConcLists == {<<>>, <<B2>>, <<A1, B2, A2>>, <<A1, NoValue>>}
ReadOps == {"get_cookies", "get_cookies_header"}
\* the service the two clients work on: the default of every method
ConcServices == {"confluence"}

Committed == Db(cookies, auth_state, seq_cookies, seq_auth)

\* the content the statements of a write transaction see and change
Working == IF writer = NoClient THEN Committed ELSE work

\* (a SELECT that reads the pages an open transaction has changed)
ReadViewUncommitted == Working

\* the content a SELECT of another connection sees: the committed file
ReadView == Committed

\* (a file without locks)
BusyNever(p) == FALSE

\* the first write of a transaction asks for the RESERVED lock, which one
\* connection at a time can hold
Busy(p) == writer \notin {NoClient, p}

\* a transaction that is committing holds PENDING: no new SHARED lock is given
Pending == \E q \in Clients : writer = q /\ conn[q].pc = "commit"

\* whether the connection object is still open when the call has ended: the with
\* block commits or rolls back and does not close it, so it is closed when the
\* runtime reclaims the object, which a propagating exception (its traceback
\* holds the frame) puts off until the caller lets go of it
Outlives(error) == IF error = KeyError THEN {TRUE} ELSE {TRUE, FALSE}

\* the call of client p ends with the given outcome
Return(p, error, done, result) ==
    /\ conn' = [conn EXCEPT ![p] = Idle]
    /\ call' = [NoCall EXCEPT !.op = conn[p].op, !.service = conn[p].service,
                    !.defective = Defective(conn[p].descs),
                    !.error = error, !.done = done, !.at = conn[p].pc, !.result = result]
    /\ \E o \in Outlives(error) : unclosed' = (unclosed \/ o)

\* an exception leaves the with block of p: rollback, locks released
Rollback(p) ==
    /\ writer' = IF writer = p THEN NoClient ELSE writer
    /\ work' = IF writer = p THEN NoWork ELSE work
    /\ readers' = readers \ {p}
    /\ UNCHANGED <<tables, cookies, auth_state, seq_cookies, seq_auth, now, last_save>>

\* save_cookies(descs, s) is called: sqlite3.connect
call_save_cookies(p, descs, s) ==
    /\ conn[p].pc = "idle"
    /\ seq_auth + Cardinality({q \in Clients : conn[q].op = "save_cookies"}) < MaxWrites
    /\ conn' = [conn EXCEPT ![p] = [pc |-> "delete", op |-> "save_cookies", service |-> s,
                                    descs |-> descs, i |-> 1]]
    /\ UNCHANGED <<tables, cookies, auth_state, seq_cookies, seq_auth, now, call, last_save,
                   writer, readers, work, unclosed>>

\* DELETE FROM cookies WHERE service = ?, the first write of the transaction
execute_delete(p) ==
    /\ conn[p].pc = "delete"
    /\ \/ /\ Busy(p)                      \* the busy timeout ran out
          /\ Rollback(p)
          /\ Return(p, "sqlite3.Error", 0, WriteOutcome("sqlite3.Error"))
       \/ /\ ~Busy(p)
          /\ writer' = p
          /\ work' = [Working EXCEPT !.cookies = DeleteCookies(@, conn[p].service)]
          /\ conn' = [conn EXCEPT ![p].pc = IF conn[p].descs = <<>> THEN "upsert" ELSE "insert"]
          /\ UNCHANGED <<tables, cookies, auth_state, seq_cookies, seq_auth, now, call,
                         last_save, readers, unclosed>>

\* one turn of the for loop: INSERT INTO cookies
execute_insert(p) ==
    /\ conn[p].pc = "insert"
    /\ \E ins \in {InsertCookies(Working.cookies, Working.seq_cookies,
                                 <<conn[p].descs[conn[p].i]>>, 1, conn[p].service,
                                 NoFault, 1, now)} :
        \/ /\ ins.error # "none"
           /\ Rollback(p)
           /\ Return(p, ins.error, conn[p].i - 1, WriteOutcome(ins.error))
        \/ /\ ins.error = "none"
           /\ work' = [Working EXCEPT !.cookies = ins.rows, !.seq_cookies = ins.seq]
           /\ conn' = [conn EXCEPT ![p].i = @ + 1,
                                   ![p].pc = IF conn[p].i = Len(conn[p].descs)
                                             THEN "upsert" ELSE "insert"]
           /\ UNCHANGED <<tables, cookies, auth_state, seq_cookies, seq_auth, now, call,
                          last_save, writer, readers, unclosed>>

\* INSERT OR REPLACE INTO auth_state, then return True: the with block ends and
\* the commit asks for the EXCLUSIVE lock
execute_upsert(p) ==
    /\ conn[p].pc = "upsert"
    /\ \E ups \in {UpsertAuthState(Working.auth_state, Working.seq_auth, conn[p].service,
                                   "cookie_based", now, "success", now)} :
        /\ work' = [Working EXCEPT !.auth_state = ups.rows, !.seq_auth = ups.seq]
        /\ conn' = [conn EXCEPT ![p].pc = "commit"]
    /\ UNCHANGED <<tables, cookies, auth_state, seq_cookies, seq_auth, now, call,
                   last_save, writer, readers, unclosed>>

\* the commit of the with block: it goes through once no SELECT holds a SHARED
\* lock, or fails when the busy timeout runs out first
exit_commit(p) ==
    /\ conn[p].pc = "commit"
    /\ \/ /\ readers = {}
          /\ Commit(Working)
          /\ writer' = NoClient /\ work' = NoWork
          /\ last_save' = [last_save EXCEPT ![conn[p].service] =
                              [saved |-> TRUE, cookies |-> conn[p].descs,
                               base |-> Working.seq_cookies - Len(conn[p].descs),
                               time |-> now]]
          /\ Return(p, "none", Len(conn[p].descs), WriteOutcome("none"))
          /\ UNCHANGED <<tables, now, readers>>
       \/ /\ readers # {}
          /\ Rollback(p)
          /\ Return(p, "sqlite3.Error", Len(conn[p].descs), WriteOutcome("sqlite3.Error"))

\* get_cookies(s) or get_cookies_header(s) is called: sqlite3.connect
call_get_cookies(p, op, s) ==
    /\ conn[p].pc = "idle"
    /\ conn' = [conn EXCEPT ![p] = [Idle EXCEPT !.pc = "select", !.op = op, !.service = s]]
    /\ UNCHANGED <<tables, cookies, auth_state, seq_cookies, seq_auth, now, call, last_save,
                   writer, readers, work, unclosed>>

\* conn.execute("SELECT ..."): the statement takes a SHARED lock
execute_select(p) ==
    /\ conn[p].pc = "select"
    /\ \/ /\ Pending                      \* the busy timeout ran out
          /\ Rollback(p)
          /\ Return(p, "sqlite3.Error", 0, Absent)
       \/ /\ ~Pending
          /\ readers' = readers \cup {p}
          /\ conn' = [conn EXCEPT ![p].pc = "fetchall"]
          /\ UNCHANGED <<tables, cookies, auth_state, seq_cookies, seq_auth, now, call,
                         last_save, writer, work, unclosed>>

\* cursor.fetchall() and the return: the rows are read, the lock is released.
\* done: the inserts an open write transaction had executed by then
fetchall(p) ==
    /\ conn[p].pc = "fetchall"
    /\ readers' = readers \ {p}
    /\ Return(p, "none", Working.seq_cookies - seq_cookies,
              IF conn[p].op = "get_cookies"
              THEN get_cookies_result(ReadView.cookies, conn[p].service, FALSE)
              ELSE get_cookies_header_result(ReadView.cookies, conn[p].service, FALSE))
    /\ UNCHANGED <<tables, cookies, auth_state, seq_cookies, seq_auth, now, last_save,
                   writer, work>>

\* the runtime reclaims the connection objects of ended calls, which closes them
collect ==
    /\ unclosed
    /\ unclosed' = FALSE
    /\ UNCHANGED <<tables, cookies, auth_state, seq_cookies, seq_auth, now, call, last_save,
                   conn, writer, readers, work>>

ConcNext ==
    \/ \E p \in Clients, descs \in ConcLists, s \in ConcServices : call_save_cookies(p, descs, s)
    \/ \E p \in Clients : execute_delete(p)
    \/ \E p \in Clients : execute_insert(p)
    \/ \E p \in Clients : execute_upsert(p)
    \/ \E p \in Clients : exit_commit(p)
    \/ \E p \in Clients, op \in ReadOps, s \in ConcServices : call_get_cookies(p, op, s)
    \/ \E p \in Clients : execute_select(p)
    \/ \E p \in Clients : fetchall(p)
    \/ collect

ConcSpec == Init /\ [][ConcNext]_vars

ConcTypeOK ==
    /\ seq_auth \in 0..MaxWrites
    /\ writer \in Clients \cup {NoClient}
    /\ readers \subseteq Clients
    /\ writer = NoClient => work = NoWork
    /\ \A p \in Clients : p \in readers <=> conn[p].pc = "fetchall"
    /\ \A p \in Clients : writer = p <=> conn[p].pc \in {"insert", "upsert", "commit"}

(* ======================= properties ======================= *)
HasCookies(s) == SelectRows(cookies, s) # <<>>
AuthRows(s) == SelectRows(auth_state, s)
SavedOk == call.op = "save_cookies" /\ call.result = "True"
UpdatedOk == call.op = "update_auth_state" /\ call.result = "True"

\* C1: in every state the cookie rows of a service are exactly the rows the
\* most recent successful save_cookies for it inserted: one per descriptor, in
\* the supplied order, with the ids that call was given; a service never saved
\* has no rows.
C1_RowsAreLastSave ==
    \A s \in Services :
        LET rows == SelectRows(cookies, s)
            ls == last_save[s]
        IN  /\ Len(rows) = Len(ls.cookies)
            /\ \A i \in 1..Len(rows) :
                  /\ rows[i].cookie_name = ls.cookies[i]["name"]
                  /\ rows[i].cookie_value = ls.cookies[i]["value"]
                  /\ rows[i].path = DictGet(ls.cookies[i], "path", "/")
                  /\ rows[i].id = ls.base + i

\* a successful save has put new rows in the place of the rows of an earlier
\* save for the same service (no other service was ever saved)
C1_Witness ==
    \E s \in Services :
        /\ SavedOk /\ call.service = s
        /\ HasCookies(s)
        /\ last_save[s].base > 0
        /\ \A o \in Services \ {s} : ~last_save[o].saved

\* C2: a save_cookies call that meets a storage-engine error returns False and
\* leaves both tables as they were; one that returns True has committed the
\* delete, every insert and the upsert together.
C2_SaveAllOrNothing ==
    [][call'.op = "save_cookies" =>
        LET s == call'.service
            n == Len(last_save'[s].cookies)
        IN  /\ call'.error = "sqlite3.Error" =>
                /\ call'.result = "False"
                /\ cookies' = cookies /\ auth_state' = auth_state
            /\ call'.result = "True" =>
                /\ call'.error = "none"
                /\ SelectRows(cookies', s) = SubSeq(cookies', Len(cookies') - n + 1, Len(cookies'))
                /\ Len(cookies') = Len(DeleteRows(cookies, s)) + n
                /\ seq_cookies' = seq_cookies + n
                /\ \E i \in 1..Len(auth_state') :
                      auth_state'[i].service = s /\ auth_state'[i].id = seq_auth + 1
    ]_vars

\* a save that had replaced one row by three when the engine failed
C2_Witness ==
    /\ call.op = "save_cookies" /\ call.error = "sqlite3.Error" /\ ~call.defective
    /\ call.done = 3
    /\ Len(SelectRows(cookies, call.service)) = 1

\* C3: a save_cookies call with a descriptor lacking "name" or "value" does not
\* succeed (it returns False or raises KeyError) and leaves both tables as they
\* were.
C3_DefectiveDescriptorFails ==
    [][call'.op = "save_cookies" /\ call'.defective =>
        /\ call'.result \in {"False", KeyError}
        /\ cookies' = cookies /\ auth_state' = auth_state
    ]_vars

\* the defective descriptor came after one that had been inserted, for a
\* service whose old row the call had deleted
C3_Witness ==
    /\ call.op = "save_cookies" /\ call.defective /\ call.error = KeyError
    /\ call.done = 1
    /\ HasCookies(call.service)

\* the mapping {d["name"]: d["value"] for d in descs}: one entry per name, a
\* name that comes more than once keeps the value of its last descriptor
Projection(descs) ==
    [n \in {descs[i]["name"] : i \in 1..Len(descs)} |->
        descs[CHOOSE i \in 1..Len(descs) :
                /\ descs[i]["name"] = n
                /\ \A j \in (i + 1)..Len(descs) : descs[j]["name"] # n]["value"]]

\* the mapping a returned dict stands for; its keys are distinct
DictAsMap(d) ==
    [n \in {d[i][1] : i \in 1..Len(d)} |-> d[CHOOSE i \in 1..Len(d) : d[i][1] = n][2]]
DistinctKeys(d) == \A i, j \in 1..Len(d) : d[i][1] = d[j][1] => i = j

GotCookies == call.op = "get_cookies" /\ call.error = "none" /\ last_save[call.service].saved
IsProjection(result, descs) ==
    /\ result # Absent
    /\ DistinctKeys(result[2])
    /\ DictAsMap(result[2]) = Projection(descs)

\* C4 (as stated): get_cookies after a successful save_cookies returns the
\* {name: value} projection of the saved descriptors, whatever was saved.
C4_RoundTripAnySequence ==
    GotCookies => IsProjection(call.result, last_save[call.service].cookies)

\* C4 (amended): get_cookies after a successful save_cookies of a non-empty
\* sequence returns the {name: value} projection of the saved descriptors; after
\* a save of the empty sequence it returns None, not an empty mapping.
C4_RoundTrip ==
    GotCookies =>
        LET descs == last_save[call.service].cookies
        IN  IF descs = <<>> THEN call.result = Absent
            ELSE IsProjection(call.result, descs)

\* get_cookies returned two names for three saved descriptors
C4_Witness ==
    /\ GotCookies
    /\ Len(last_save[call.service].cookies) = 3
    /\ call.result # Absent /\ Len(call.result[2]) = 2

\* C5: a call during which the storage engine failed returns None if it is a
\* read and False if it is a write; the error does not reach the caller.
C5_FailuresContained ==
    call.error = "sqlite3.Error" =>
        /\ call.op \in {"get_cookies", "get_cookies_header", "get_last_update"} =>
              call.result = Absent
        /\ call.op \in {"save_cookies", "update_auth_state"} => call.result = "False"

\* a read of a service that has cookies came back empty-handed
C5_Witness ==
    /\ call.op = "get_cookies_header" /\ call.error = "sqlite3.Error"
    /\ HasCookies(call.service)

\* C6: after a successful save_cookies the service has one auth_state row, with
\* auth_type "cookie_based", last_auth_status "success" and a last_success_auth;
\* if the saved sequence was empty, get_cookies of the service returns None.
C6_SaveMarksSuccess ==
    SavedOk =>
        LET rows == AuthRows(call.service)
        IN  /\ Len(rows) = 1
            /\ rows[1].auth_type = "cookie_based"
            /\ rows[1].last_auth_status = "success"
            /\ rows[1].last_success_auth # NoTime
            /\ last_save[call.service].cookies = <<>> =>
                  get_cookies_result(cookies, call.service, FALSE) = Absent

\* an empty save replaced the auth_state row an earlier write had left for the
\* same service
C6_Witness ==
    /\ SavedOk
    /\ last_save[call.service].cookies = <<>>
    /\ AuthRows(call.service)[1].id = 2
    /\ Len(auth_state) = 1

\* C7: update_auth_state leaves the result of get_cookies, get_cookies_header
\* and get_last_update of every service as it was.
C7_UpdateKeepsCookies ==
    [][call'.op = "update_auth_state" =>
        \A s \in Services :
            /\ get_cookies_result(cookies', s, FALSE) = get_cookies_result(cookies, s, FALSE)
            /\ get_cookies_header_result(cookies', s, FALSE)
                  = get_cookies_header_result(cookies, s, FALSE)
            /\ get_last_update_result(cookies', s, FALSE)
                  = get_last_update_result(cookies, s, FALSE)
    ]_vars

\* a "failure" was recorded for a service that has cookies
C7_Witness ==
    /\ UpdatedOk /\ call.status = "failure"
    /\ HasCookies(call.service)

\* C8: after a successful update_auth_state the service's auth_state row holds
\* the given status and auth_type, and has a last_success_auth exactly when the
\* status is "success".
C8_UpdateSetsState ==
    UpdatedOk =>
        LET rows == AuthRows(call.service)
        IN  /\ Len(rows) = 1
            /\ rows[1].last_auth_status = call.status
            /\ rows[1].auth_type = call.auth_type
            /\ rows[1].last_success_auth # NoTime <=> call.status = "success"

\* a "failure" erased the last_success_auth a save had recorded
C8_Witness ==
    /\ UpdatedOk /\ call.status = "failure"
    /\ last_save[call.service].saved
    /\ AuthRows(call.service)[1].last_success_auth = NoTime

\* C9: once a service has an auth_state row, no later write changes its
\* created_at.
C9_CreatedAtSetOnce ==
    [][\A s \in Services :
          SelectRows(auth_state, s) # <<>> =>
              /\ SelectRows(auth_state', s) # <<>>
              /\ SelectRows(auth_state', s)[1].created_at = SelectRows(auth_state, s)[1].created_at
    ]_vars

GotLastUpdate == call.op = "get_last_update" /\ call.error = "none"

\* C10 (as stated): get_last_update returns the time of the most recent
\* successful save_cookies of the service, and None if it was never saved.
C10_LastUpdateIsLastSave ==
    GotLastUpdate =>
        LET ls == last_save[call.service]
        IN  call.result = IF ls.saved THEN <<"datetime", ls.time>> ELSE Absent

\* C10 (amended): get_last_update returns the time of the most recent
\* successful save_cookies of the service if that save wrote at least one
\* cookie, and None if the service was never saved or its last save was empty.
C10_LastUpdate ==
    GotLastUpdate =>
        LET ls == last_save[call.service]
        IN  call.result = IF ls.saved /\ ls.cookies # <<>>
                          THEN <<"datetime", ls.time>> ELSE Absent

\* get_last_update reports the second save of a service, made at second 2
C10_Witness ==
    /\ GotLastUpdate
    /\ last_save[call.service].base > 0
    /\ \A o \in Services \ {call.service} : ~last_save[o].saved
    /\ call.result = <<"datetime", 2>>

GotHeader == call.op = "get_cookies_header" /\ call.error = "none"

\* the names of the descriptors from i on that are not in seen, each once, in
\* the order of their first occurrence
RECURSIVE FirstOccurrences(_, _, _)
FirstOccurrences(descs, i, seen) ==
    IF i > Len(descs) THEN <<>>
    ELSE IF descs[i]["name"] \in seen THEN FirstOccurrences(descs, i + 1, seen)
    ELSE <<descs[i]["name"]>> \o FirstOccurrences(descs, i + 1, seen \cup {descs[i]["name"]})

\* "n1=v1; n2=v2; ..." for the given names and mapping
RECURSIVE HeaderOf(_, _)
HeaderOf(names, map) ==
    IF names = <<>> THEN ""
    ELSE Head(names) \o "=" \o map[Head(names)]
            \o (IF Len(names) > 1 THEN "; " \o HeaderOf(Tail(names), map) ELSE "")

\* C11: get_cookies_header returns None exactly when get_cookies of the same
\* service returns None; otherwise it is the name=value pairs of the get_cookies
\* mapping joined by "; ", which after a save lists each saved name once, in the
\* order of its first occurrence and with the value of its last occurrence.
C11_HeaderFollowsCookies ==
    GotHeader =>
        LET got == get_cookies_result(cookies, call.service, FALSE)
            descs == last_save[call.service].cookies
        IN  /\ call.result = Absent <=> got = Absent
            /\ got # Absent =>
                  /\ call.result[1] = "str"
                  /\ call.result[2] = HeaderOf([i \in 1..Len(got[2]) |-> got[2][i][1]],
                                               DictAsMap(got[2]))
                  /\ call.result[2] = HeaderOf(FirstOccurrences(descs, 1, {}), Projection(descs))

\* the header of the saved sequence a=1, b=2, a=2
C11_Witness ==
    /\ GotHeader
    /\ Len(last_save[call.service].cookies) = 3
    /\ call.result = <<"str", "a=2; b=2">>

\* C12: get_cookies never returns an empty mapping; a call the engine did not
\* fail returns None when the service has no cookie rows (never saved, or last
\* saved with an empty sequence) and a non-empty mapping when it has some.
C12_NeverEmptyMapping ==
    call.op = "get_cookies" =>
        /\ call.result # <<"dict", <<>>>>
        /\ call.error = "none" =>
              /\ call.result = Absent <=> ~HasCookies(call.service)
              /\ ~last_save[call.service].saved \/ last_save[call.service].cookies = <<>>
                    => call.result = Absent

\* get_cookies returned None for a service whose cookies an empty save removed
C12_Witness ==
    /\ call.op = "get_cookies" /\ call.error = "none"
    /\ last_save[call.service].saved /\ last_save[call.service].cookies = <<>>
    /\ last_save[call.service].base > 0
    /\ \A o \in Services \ {call.service} : ~last_save[o].saved
    /\ call.result = Absent

\* C13: in every state a service has at most one auth_state row, and a service
\* that has one has one in every later state.
C13_OneAuthRowPerService ==
    /\ [](\A s \in Services : Len(AuthRows(s)) <= 1)
    /\ [][\A s \in Services :
            SelectRows(auth_state, s) # <<>> => SelectRows(auth_state', s) # <<>>]_vars

\* update_auth_state replaced the row a save had written, while the other
\* service has none
C13_Witness ==
    /\ UpdatedOk
    /\ last_save[call.service].saved
    /\ Len(auth_state) = 1
    /\ AuthRows(call.service)[1].id = 2
    /\ AuthRows(call.service)[1].auth_type = "basic"

\* C17: save_cookies and update_auth_state for a service leave the cookie rows
\* and the auth_state row of every other service as they were, whether the call
\* succeeds or fails.
C17_OtherServicesUntouched ==
    [][call'.op \in {"save_cookies", "update_auth_state"} =>
        \A o \in Services \ {call'.service} :
            /\ SelectRows(cookies', o) = SelectRows(cookies, o)
            /\ SelectRows(auth_state', o) = SelectRows(auth_state, o)
    ]_vars

\* a save went through for one service while the other has cookies and an
\* auth_state row
C17_Witness ==
    /\ SavedOk
    /\ \E o \in Services \ {call.service} : HasCookies(o) /\ AuthRows(o) # <<>>

\* C18: in every state a service that has a cookie row has an auth_state row.
C18_CookiesHaveAuthState ==
    \A s \in Services : HasCookies(s) => AuthRows(s) # <<>>

\* a service has cookies, and the auth_state row it has is the one a later
\* update_auth_state left
C18_Witness ==
    \E s \in Services :
        /\ HasCookies(s)
        /\ Len(AuthRows(s)) = 1
        /\ AuthRows(s)[1].last_auth_status = "failure"

\* C14: constructing the store again on the same file leaves every cookie row
\* and every auth_state row, and the tables themselves, as they were, and raises
\* nothing unless the storage engine fails.
C14_InitializeIdempotent ==
    [][call'.op = "__init__" =>
        /\ tables' = tables /\ cookies' = cookies /\ auth_state' = auth_state
        /\ seq_cookies' = seq_cookies /\ seq_auth' = seq_auth
        /\ ensure_tables(NoFault) => call'.result = Absent
    ]_vars

\* the store was constructed again, without failure, on a file that holds
\* cookies and auth_state rows
C14_Witness ==
    /\ call.op = "__init__" /\ call.error = "none" /\ call.done = 2
    /\ cookies # <<>>
    /\ Len(auth_state) = 2

\* C15: with two clients saving at once, the committed cookie rows of a service
\* are in every state exactly the rows of the last save that committed for it,
\* never rows of two saves; only the commit of a save that returns True changes
\* the committed tables, and a save that finds the database locked ends at once,
\* returning False, with the tables as they were.
C15_ConcurrentSaves ==
    /\ [](\A s \in Services :
            LET rows == SelectRows(cookies, s)
                ls == last_save[s]
            IN  /\ Len(rows) = Len(ls.cookies)
                /\ \A i \in 1..Len(rows) :
                      /\ rows[i].id = ls.base + i
                      /\ rows[i].cookie_name = ls.cookies[i]["name"]
                      /\ rows[i].cookie_value = ls.cookies[i]["value"])
    /\ [][/\ Committed' # Committed =>
                \E p \in Clients : /\ conn[p].pc = "commit" /\ conn'[p] = Idle
                                   /\ call'.result = "True"
          /\ \A p \in Clients :
                conn[p].op = "save_cookies" /\ conn'[p] = Idle /\ call'.error = "sqlite3.Error"
                    => call'.result = "False" /\ Committed' = Committed
         ]_vars

\* a save found the database locked and returned False while the save of the
\* other client, for the same service, is between two of its inserts
C15_Witness ==
    /\ call.op = "save_cookies" /\ call.error = "sqlite3.Error" /\ call.at = "delete"
    /\ call.result = "False"
    /\ \E q \in Clients :
          /\ writer = q /\ conn[q].service = call.service
          /\ conn[q].pc = "insert" /\ conn[q].i = 2

\* C16: a get_cookies or get_cookies_header that the engine does not fail
\* returns the complete result of the last save committed for the service, also
\* while a save of the other client has deleted the old rows and not yet
\* inserted all the new ones.
C16_ReadsSeeCommittedSaves ==
    [][\A p \in Clients :
          conn[p].pc = "fetchall" /\ conn'[p] = Idle =>
              LET descs == last_save[conn[p].service].cookies
              IN  IF descs = <<>> THEN call'.result = Absent
                  ELSE IF conn[p].op = "get_cookies" THEN IsProjection(call'.result, descs)
                  ELSE call'.result
                          = <<"str", HeaderOf(FirstOccurrences(descs, 1, {}), Projection(descs))>>
    ]_vars

\* get_cookies returned the one cookie saved before, read while the save of the
\* other client had deleted it and inserted the first of its three
C16_Witness ==
    /\ call.op = "get_cookies" /\ call.error = "none" /\ call.at = "fetchall" /\ call.done = 1
    /\ call.result = <<"dict", <<<<"b", "2">>>>>>
    /\ \E q \in Clients :
          /\ writer = q /\ conn[q].service = call.service
          /\ conn[q].pc = "insert" /\ Len(conn[q].descs) = 3

\* C19: no call that has ended has left its connection open.
C19_ConnectionsReleased == ~unclosed

====
